---- MODULE Spec2Model ----
(***************************************************************************)
(* Model of IMU.py: the IMU class (sensor state, axis reads, register      *)
(* setup/reset), the acquisition processes started by                      *)
(* take_measurements_process and stopped by end_measurements_processes.    *)
(***************************************************************************)
EXTENDS Integers, Sequences, FiniteSets, TLC

(* ---------------------------------------------------------------- bounds *)
MaxTasks == 2
MaxFreq == 2
MaxCut == 1
PipeCap == 1

(* ------------------------------------------------------------- constants *)
\* cut=None of take_measurements_process; a rotation period is > 0
NoCut == 0

Byte == 0..255
\* the byte pairs <<low, high>> the device shows in the full system model
SampleBytes == {<<0, 0>>, <<255, 127>>, <<0, 128>>}
Kinds == {"acc", "mag", "gyr"}
\* axis arguments tried by direct calls: the three axes and two invalid ones
AxisArgs == {-1, 0, 1, 2, 3}
Tasks == 1..MaxTasks

\* the seven control registers written by setup_default and reset_registers,
\* in program order, with the values setup_default writes (binary literals)
SetupWrites ==
    << <<"ACC_ADDRESS", "CTRL_REG1_XM", 103>>,
       <<"ACC_ADDRESS", "CTRL_REG2_XM", 32>>,
       <<"MAG_ADDRESS", "CTRL_REG5_XM", 240>>,
       <<"MAG_ADDRESS", "CTRL_REG6_XM", 96>>,
       <<"MAG_ADDRESS", "CTRL_REG7_XM", 0>>,
       <<"GYR_ADDRESS", "CTRL_REG1_G", 15>>,
       <<"GYR_ADDRESS", "CTRL_REG4_G", 48>> >>

ResetWritesWrong ==
    << <<"ACC_ADDRESS", "CTRL_REG1_XM", 0>>,
       <<"ACC_ADDRESS", "CTRL_REG2_XM", 0>>,
       <<"MAG_ADDRESS", "CTRL_REG5_XM", 0>>,
       <<"MAG_ADDRESS", "CTRL_REG6_XM", 0>>,
       <<"MAG_ADDRESS", "CTRL_REG7_XM", 0>>,
       <<"GYR_ADDRESS", "CTRL_REG1_G", 0>>,
       <<"GYR_ADDRESS", "CTRL_REG1_G", 0>> >>
ResetWrites ==
    << <<"ACC_ADDRESS", "CTRL_REG1_XM", 0>>,
       <<"ACC_ADDRESS", "CTRL_REG2_XM", 0>>,
       <<"MAG_ADDRESS", "CTRL_REG5_XM", 0>>,
       <<"MAG_ADDRESS", "CTRL_REG6_XM", 0>>,
       <<"MAG_ADDRESS", "CTRL_REG7_XM", 0>>,
       <<"GYR_ADDRESS", "CTRL_REG1_G", 0>>,
       <<"GYR_ADDRESS", "CTRL_REG4_G", 0>> >>

CtrlRegs == {<<SetupWrites[k][1], SetupWrites[k][2]>> : k \in 1..Len(SetupWrites)}

VARIABLES
    acc_active, gyr_active, mag_active,  \* self._acc_active, ...
    regs,          \* control registers of the device, as written over the bus
    out_l, out_h,  \* the bytes the device returns for an output register pair
    processes,     \* self._processes
    flags,         \* self._flags
    exit_flag,     \* the value of each multiprocessing.Value('i', 0)
    task,          \* per process: position and locals of _take_measurements
    files,         \* per process: the files '{file_name}_{n}.txt' it wrote
    pipe,          \* per process: bundles sent and not yet received
    pipe_closed,   \* per process: number of pipe.close() calls
    owner,         \* position of the calling program inside end_measurements_processes
    ret,           \* outcome of the owner's last call
    calls,         \* history of the owner's setup_default / reset_registers calls
    hist           \* history of each process, for the properties

vars == <<acc_active, gyr_active, mag_active, regs, out_l, out_h, processes,
          flags, exit_flag, task, files, pipe, pipe_closed, owner, ret,
          calls, hist>>

sensorVars == <<acc_active, gyr_active, mag_active, regs>>
supVars == <<processes, flags, owner>>
taskVars == <<exit_flag, task, files, pipe, pipe_closed, hist>>

(* -------------------------------------------------------- pure functions *)

RECURSIVE BitOr(_, _)
\* Python's a | b on non-negative integers
BitOr(a, b) ==
    IF a = 0 THEN b
    ELSE IF b = 0 THEN a
    ELSE (IF (a % 2 = 1) \/ (b % 2 = 1) THEN 1 ELSE 0) + 2 * BitOr(a \div 2, b \div 2)

\* Python's a << 8
ShiftLeft8(a) == a * 256

\* acc_combined = (acc_l | acc_h << 8)
Combine(l, h) == BitOr(l, ShiftLeft8(h))

DecodeWrong(c) == IF c <= 32768 THEN c ELSE c - 65536
\* return acc_combined if acc_combined < 32768 else acc_combined - 65536
Decode(c) == IF c < 32768 THEN c ELSE c - 65536

\* the sensor name each read*Axis passes to SensorInactiveError
ErrorSensor(kind) ==
    CASE kind = "acc" -> "Accelerometer"
      [] kind = "mag" -> "Accelerometer"
      [] kind = "gyr" -> "Accelerometer"

\* the name of each sensor kind
KindName(kind) ==
    CASE kind = "acc" -> "Accelerometer"
      [] kind = "mag" -> "Magnetometer"
      [] kind = "gyr" -> "Gyroscope"

\* the flag each read*Axis tests before reading; a is [acc, gyr, mag |-> BOOLEAN]
CheckedFlag(a, kind) ==
    CASE kind = "acc" -> a.acc
      [] kind = "mag" -> a.mag
      [] kind = "gyr" -> a.acc

\* a kind's own flag
OwnFlag(a, kind) ==
    CASE kind = "acc" -> a.acc
      [] kind = "mag" -> a.mag
      [] kind = "gyr" -> a.gyr

ReadAxisWrong(a, kind, axis, l, h) ==
    IF CheckedFlag(a, kind) = FALSE
    THEN [outcome |-> "SensorInactiveError", value |-> 0,
          sensor |-> ErrorSensor(kind), reads |-> 0]
    ELSE IF axis > 2
    THEN [outcome |-> "ValueError", value |-> 0, sensor |-> "", reads |-> 0]
    ELSE [outcome |-> "value", value |-> Decode(Combine(l, h)), sensor |-> "",
          reads |-> 2]
\* readAccAxis / readMagAxis / readGyrAxis with flags a, the device showing l, h
ReadAxis(a, kind, axis, l, h) ==
    IF CheckedFlag(a, kind) = FALSE
    THEN [outcome |-> "SensorInactiveError", value |-> 0,
          sensor |-> ErrorSensor(kind), reads |-> 0]
    ELSE IF axis \notin {0, 1, 2}
    THEN [outcome |-> "ValueError", value |-> 0, sensor |-> "", reads |-> 0]
    ELSE [outcome |-> "value", value |-> Decode(Combine(l, h)), sensor |-> "",
          reads |-> 2]

\* readAcc / readMag / readGyr: axis 0, 1, 2 in that order; the first failing
\* axis raises and ends the call
ReadAll(a, kind, l, h) ==
    LET rx == ReadAxis(a, kind, 0, l, h)
        ry == ReadAxis(a, kind, 1, l, h)
        rz == ReadAxis(a, kind, 2, l, h)
    IN  IF rx.outcome # "value"
        THEN [outcome |-> rx.outcome, sensor |-> rx.sensor, reads |-> 0,
              x |-> 0, y |-> 0, z |-> 0]
        ELSE [outcome |-> "value", sensor |-> "", reads |-> 6,
              x |-> rx.value, y |-> ry.value, z |-> rz.value]

OwnerFlags == [acc |-> acc_active, gyr |-> gyr_active, mag |-> mag_active]

\* registers after the first k writes of the sequence ws
RECURSIVE ApplyWrites(_, _, _)
ApplyWrites(r, ws, k) ==
    IF k = 0 THEN r
    ELSE [ApplyWrites(r, ws, k - 1) EXCEPT ![<<ws[k][1], ws[k][2]>>] = ws[k][3]]

(* ------------------------------------------------------------------ Init *)

Zero3 == [x |-> 0, y |-> 0, z |-> 0]

NoRet == [op |-> "none", kind |-> "", axis |-> 0, outcome |-> "", value |-> 0,
          sensor |-> "", reads |-> 0, x |-> 0, y |-> 0, z |-> 0]

\* a process that has not been created yet
Unborn == [pc |-> "unborn", freq |-> 0, cut |-> NoCut, local_flag |-> 0,
           active |-> [acc |-> FALSE, gyr |-> FALSE, mag |-> FALSE],
           n |-> 0, i |-> 0, file |-> -1, open |-> {},
           acc |-> Zero3, mag |-> Zero3, gyr |-> Zero3]

\* IMU.__init__
Init ==
    /\ acc_active = FALSE
    /\ gyr_active = FALSE
    /\ mag_active = FALSE
    /\ regs = [r \in CtrlRegs |-> 0]
    /\ out_l = 0
    /\ out_h = 0
    /\ processes = <<>>
    /\ flags = <<>>
    /\ exit_flag = [t \in Tasks |-> 0]
    /\ task = [t \in Tasks |-> Unborn]
    /\ files = [t \in Tasks |-> <<>>]
    /\ pipe = [t \in Tasks |-> <<>>]
    /\ pipe_closed = [t \in Tasks |-> 0]
    /\ owner = [pc |-> "idle", k |-> 0, reported |-> <<>>]
    /\ ret = NoRet
    /\ calls = [last |-> "none", prev |-> "none", failed |-> FALSE]
    /\ hist = [t \in Tasks |-> [after |-> 0, rank |-> 0, lead |-> 0]]

(* ------------------------------------------------- SensorState operations *)

\* the device changes the bytes it shows in its output registers
BusChange ==
    /\ \E b \in SampleBytes :
          /\ <<out_l, out_h>> # b
          /\ out_l' = b[1]
          /\ out_h' = b[2]
    /\ UNCHANGED <<sensorVars, supVars, taskVars, ret, calls>>

SetupDefaultPartial(ok) ==
    /\ owner.pc = "idle"
    /\ regs' = ApplyWrites(regs, SetupWrites, ok)
    /\ acc_active' = IF ok >= 2 THEN TRUE ELSE acc_active
    /\ mag_active' = IF ok >= 5 THEN TRUE ELSE mag_active
    /\ gyr_active' = IF ok >= 7 THEN TRUE ELSE gyr_active
    /\ ret' = IF ok = Len(SetupWrites)
              THEN [NoRet EXCEPT !.op = "setup_default", !.outcome = "ok"]
              ELSE [NoRet EXCEPT !.op = "setup_default", !.outcome = "IOError"]
    /\ calls' = [last |-> "setup_default", prev |-> calls.last,
                 failed |-> calls.failed \/ ok < Len(SetupWrites)]
    /\ UNCHANGED <<out_l, out_h, supVars, taskVars>>
SetupDefaultWrong(ok) ==
    /\ owner.pc = "idle"
    /\ regs' = ApplyWrites(regs, SetupWrites, ok)
    /\ IF ok = Len(SetupWrites)
       THEN /\ acc_active' = TRUE
            /\ mag_active' = TRUE
            /\ gyr_active' = FALSE
            /\ ret' = [NoRet EXCEPT !.op = "setup_default", !.outcome = "ok"]
       ELSE /\ UNCHANGED <<acc_active, mag_active, gyr_active>>
            /\ ret' = [NoRet EXCEPT !.op = "setup_default", !.outcome = "IOError"]
    /\ calls' = [last |-> "setup_default", prev |-> calls.last,
                 failed |-> calls.failed \/ ok < Len(SetupWrites)]
    /\ UNCHANGED <<out_l, out_h, supVars, taskVars>>
\* setup_default; the first ok bus writes succeed, the next one (if any) raises
SetupDefault(ok) ==
    /\ owner.pc = "idle"
    /\ regs' = ApplyWrites(regs, SetupWrites, ok)
    /\ IF ok = Len(SetupWrites)
       THEN /\ acc_active' = TRUE
            /\ mag_active' = TRUE
            /\ gyr_active' = TRUE
            /\ ret' = [NoRet EXCEPT !.op = "setup_default", !.outcome = "ok"]
       ELSE /\ UNCHANGED <<acc_active, mag_active, gyr_active>>
            /\ ret' = [NoRet EXCEPT !.op = "setup_default", !.outcome = "IOError"]
    /\ calls' = [last |-> "setup_default", prev |-> calls.last,
                 failed |-> calls.failed \/ ok < Len(SetupWrites)]
    /\ UNCHANGED <<out_l, out_h, supVars, taskVars>>

\* reset_registers; the first ok bus writes succeed, the next one (if any) raises
ResetRegisters(ok) ==
    /\ owner.pc = "idle"
    /\ regs' = ApplyWrites(regs, ResetWrites, ok)
    /\ IF ok = Len(ResetWrites)
       THEN /\ acc_active' = FALSE
            /\ gyr_active' = FALSE
            /\ mag_active' = FALSE
            /\ ret' = [NoRet EXCEPT !.op = "reset_registers", !.outcome = "ok"]
       ELSE /\ UNCHANGED <<acc_active, mag_active, gyr_active>>
            /\ ret' = [NoRet EXCEPT !.op = "reset_registers", !.outcome = "IOError"]
    /\ calls' = [last |-> "reset_registers", prev |-> calls.last,
                 failed |-> calls.failed \/ ok < Len(ResetWrites)]
    /\ UNCHANGED <<out_l, out_h, supVars, taskVars>>

\* a direct call of readAccAxis / readMagAxis / readGyrAxis by the owner
ReadAxisCall(kind, axis) ==
    /\ owner.pc = "idle"
    /\ LET r == ReadAxis(OwnerFlags, kind, axis, out_l, out_h)
       IN  /\ ret' = [NoRet EXCEPT !.op = "readAxis", !.kind = kind, !.axis = axis,
                         !.outcome = r.outcome, !.value = r.value,
                         !.sensor = r.sensor, !.reads = r.reads]
    /\ UNCHANGED <<sensorVars, out_l, out_h, supVars, taskVars, calls>>

\* a direct call of readAcc / readMag / readGyr by the owner
ReadAllCall(kind) ==
    /\ owner.pc = "idle"
    /\ LET r == ReadAll(OwnerFlags, kind, out_l, out_h)
       IN  /\ ret' = [NoRet EXCEPT !.op = "readAll", !.kind = kind,
                         !.outcome = r.outcome, !.sensor = r.sensor,
                         !.reads = r.reads, !.x = r.x, !.y = r.y, !.z = r.z]
    /\ UNCHANGED <<sensorVars, out_l, out_h, supVars, taskVars, calls>>

(* ------------------------------------------------ two's-complement decode *)

\* every byte pair, on a device that setup_default has configured
InitDecode ==
    /\ acc_active = TRUE
    /\ gyr_active = TRUE
    /\ mag_active = TRUE
    /\ regs = ApplyWrites([r \in CtrlRegs |-> 0], SetupWrites, Len(SetupWrites))
    /\ out_l \in Byte
    /\ out_h \in Byte
    /\ processes = <<>>
    /\ flags = <<>>
    /\ exit_flag = [t \in Tasks |-> 0]
    /\ task = [t \in Tasks |-> Unborn]
    /\ files = [t \in Tasks |-> <<>>]
    /\ pipe = [t \in Tasks |-> <<>>]
    /\ pipe_closed = [t \in Tasks |-> 0]
    /\ owner = [pc |-> "idle", k |-> 0, reported |-> <<>>]
    /\ ret = NoRet
    /\ calls = [last |-> "setup_default", prev |-> "none", failed |-> FALSE]
    /\ hist = [t \in Tasks |-> [after |-> 0, rank |-> 0, lead |-> 0]]

\* one read of one axis of one sensor
NextDecode ==
    /\ ret = NoRet
    /\ \E kind \in Kinds, axis \in {0, 1, 2} : ReadAxisCall(kind, axis)

SpecDecode == InitDecode /\ [][NextDecode]_vars

(* --------------------------------------------------------- the supervisor *)

\* take_measurements_process(freq, file_name, cut): the new process starts
\* with its own copy of the IMU object (multiprocessing.Process); only
\* exit_flag and the pipe are shared with the owner.  File names of
\* different launches are taken to differ.
TakeMeasurementsProcessWrong(freq, cut) ==
    /\ owner.pc = "idle"
    /\ Len(processes) < MaxTasks
    /\ LET t == Len(processes) + 1
       IN  /\ exit_flag' = [exit_flag EXCEPT ![t] = 0]
           /\ processes' = Append(processes, t)
           /\ flags' = <<t>> \o flags
           /\ task' = [task EXCEPT ![t] =
                          [Unborn EXCEPT !.pc = "start", !.freq = freq,
                                         !.cut = cut, !.active = OwnerFlags]]
    /\ UNCHANGED <<sensorVars, out_l, out_h, owner, files, pipe, pipe_closed,
                   ret, calls, hist>>
TakeMeasurementsProcess(freq, cut) ==
    /\ owner.pc = "idle"
    /\ Len(processes) < MaxTasks
    /\ LET t == Len(processes) + 1
       IN  /\ exit_flag' = [exit_flag EXCEPT ![t] = 0]
           /\ processes' = Append(processes, t)
           /\ flags' = Append(flags, t)
           /\ task' = [task EXCEPT ![t] =
                          [Unborn EXCEPT !.pc = "start", !.freq = freq,
                                         !.cut = cut, !.active = OwnerFlags]]
    /\ UNCHANGED <<sensorVars, out_l, out_h, owner, files, pipe, pipe_closed,
                   ret, calls, hist>>

\* end_measurements_processes is called
EndCall ==
    /\ owner.pc = "idle"
    /\ owner' = [pc |-> "setflags", k |-> 1, reported |-> <<>>]
    /\ UNCHANGED <<sensorVars, out_l, out_h, processes, flags, taskVars, ret,
                   calls>>

EndSetFlagWrong ==
    /\ owner.pc = "setflags"
    /\ IF owner.k < Len(flags)
       THEN /\ exit_flag' = [exit_flag EXCEPT ![flags[owner.k]] = 1]
            /\ owner' = [owner EXCEPT !.k = @ + 1]
       ELSE /\ owner' = [owner EXCEPT !.pc = "join", !.k = 1]
            /\ UNCHANGED exit_flag
    /\ UNCHANGED <<sensorVars, out_l, out_h, processes, flags, task, files,
                   pipe, pipe_closed, hist, ret, calls>>
\* for flag in self._flags: with flag.get_lock(): flag.value = 1
EndSetFlag ==
    /\ owner.pc = "setflags"
    /\ IF owner.k <= Len(flags)
       THEN /\ exit_flag' = [exit_flag EXCEPT ![flags[owner.k]] = 1]
            /\ owner' = [owner EXCEPT !.k = @ + 1]
       ELSE /\ owner' = [owner EXCEPT !.pc = "join", !.k = 1]
            /\ UNCHANGED exit_flag
    /\ UNCHANGED <<sensorVars, out_l, out_h, processes, flags, task, files,
                   pipe, pipe_closed, hist, ret, calls>>

EndJoinWrong ==
    /\ owner.pc = "join"
    /\ owner.k <= Len(processes)
    /\ task[processes[owner.k]].pc = "done"
    /\ owner' = [owner EXCEPT !.k = @ + 1,
                              !.reported = Append(@, owner.k)]
    /\ UNCHANGED <<sensorVars, out_l, out_h, processes, flags, taskVars, ret,
                   calls>>
\* for i, process in enumerate(self._processes): process.join(); print(i)
EndJoin ==
    /\ owner.pc = "join"
    /\ owner.k <= Len(processes)
    /\ task[processes[owner.k]].pc = "done"
    /\ owner' = [owner EXCEPT !.k = @ + 1,
                              !.reported = Append(@, owner.k - 1)]
    /\ UNCHANGED <<sensorVars, out_l, out_h, processes, flags, taskVars, ret,
                   calls>>

\* return
EndReturn ==
    /\ owner.pc = "join"
    /\ owner.k > Len(processes)
    /\ owner' = [owner EXCEPT !.pc = "idle", !.k = 0]
    /\ UNCHANGED <<sensorVars, out_l, out_h, processes, flags, taskVars, ret,
                   calls>>

(* ------------------------------------------------------ _take_measurements *)

taskRest == <<sensorVars, out_l, out_h, supVars, ret, calls>>

\* the number of processes that have ended
NumDone == Cardinality({u \in Tasks : task[u].pc = "done"})

\* with exit_flag.get_lock(): local_flag = exit_flag.value   (before the loop)
TaskStart(t) ==
    /\ task[t].pc = "start"
    /\ task' = [task EXCEPT ![t].local_flag = exit_flag[t], ![t].pc = "while"]
    /\ UNCHANGED <<taskRest, exit_flag, files, pipe, pipe_closed, hist>>

\* while local_flag == 0:
TaskWhile(t) ==
    /\ task[t].pc = "while"
    /\ task' = [task EXCEPT ![t].pc = IF task[t].local_flag = 0
                                      THEN "body" ELSE "close"]
    /\ UNCHANGED <<taskRest, exit_flag, files, pipe, pipe_closed, hist>>

\* if cut is not None: n = 0, and the for loop is entered; otherwise the
\* body of the while loop is empty
TaskBody(t) ==
    /\ task[t].pc = "body"
    /\ task' = IF task[t].cut # NoCut
               THEN [task EXCEPT ![t].n = 0, ![t].i = 0, ![t].pc = "for"]
               ELSE [task EXCEPT ![t].pc = "while"]
    /\ UNCHANGED <<taskRest, exit_flag, files, pipe, pipe_closed, hist>>

\* for i in range(0, cut*freq): file_path = ..._n.txt; n += 1;
\* with open(str(file_path), 'w') as file:
TaskFor(t) ==
    /\ task[t].pc = "for"
    /\ IF task[t].i < task[t].cut * task[t].freq
       THEN /\ task' = [task EXCEPT ![t].file = task[t].n, ![t].n = @ + 1,
                                    ![t].open = @ \cup {task[t].n},
                                    ![t].pc = "readAcc"]
            /\ files' = [files EXCEPT ![t] =
                            [k \in DOMAIN files[t] \cup {task[t].n} |->
                                IF k = task[t].n THEN <<>> ELSE files[t][k]]]
       ELSE /\ task' = [task EXCEPT ![t].pc = "while"]
            /\ UNCHANGED files
    /\ UNCHANGED <<taskRest, exit_flag, pipe, pipe_closed, hist>>

\* acc = self.readAcc() / mag = self.readMag() / gyr = self.readGyr(), with
\* the process's own flags; SensorInactiveError leaves the with block (the
\* file is closed) for the except clause
TaskRead(t, kind, at, next) ==
    /\ task[t].pc = at
    /\ LET r == ReadAll(task[t].active, kind, out_l, out_h)
           v == [x |-> r.x, y |-> r.y, z |-> r.z]
       IN  IF r.outcome = "value"
           THEN /\ task' = [task EXCEPT ![t].pc = next,
                               ![t].acc = IF kind = "acc" THEN v ELSE @,
                               ![t].mag = IF kind = "mag" THEN v ELSE @,
                               ![t].gyr = IF kind = "gyr" THEN v ELSE @]
           ELSE /\ task' = [task EXCEPT ![t].pc = "except", ![t].file = -1,
                                        ![t].open = @ \ {task[t].file}]
    /\ UNCHANGED <<taskRest, exit_flag, files, pipe, pipe_closed, hist>>

TaskReadAcc(t) == TaskRead(t, "acc", "readAcc", "readMag")
TaskReadMag(t) == TaskRead(t, "mag", "readMag", "readGyr")
TaskReadGyr(t) == TaskRead(t, "gyr", "readGyr", "write")

FileOutputWrong(acc, mag, gyr) ==
    <<acc.x, acc.y, acc.z, mag.x, mag.y, mag.z, gyr.x, gyr.y, gyr.z>>
\* 'Acc: {} {} {} Gyr: {} {} {} Mag: {} {} {}\n'.format(...)
FileOutput(acc, mag, gyr) ==
    <<acc.x, acc.y, acc.z, gyr.x, gyr.y, gyr.z, mag.x, mag.y, mag.z>>

\* file.write(file_output)
TaskWrite(t) ==
    /\ task[t].pc = "write"
    /\ files' = [files EXCEPT ![t][task[t].file] =
                    Append(@, FileOutput(task[t].acc, task[t].mag, task[t].gyr))]
    /\ task' = [task EXCEPT ![t].pc = "send"]
    /\ hist' = [hist EXCEPT ![t].lead = @ + 1]
    /\ UNCHANGED <<taskRest, exit_flag, pipe, pipe_closed>>

\* pipe.send([acc, mag, gyr]); blocks while the pipe's buffer is full
TaskSend(t) ==
    /\ task[t].pc = "send"
    /\ Len(pipe[t]) < PipeCap
    /\ pipe' = [pipe EXCEPT ![t] = Append(@, <<task[t].acc, task[t].mag, task[t].gyr>>)]
    /\ hist' = [hist EXCEPT ![t].after = IF exit_flag[t] = 1 THEN @ + 1 ELSE @,
                             ![t].lead = @ - 1]
    /\ task' = [task EXCEPT ![t].pc = "getflag"]
    /\ UNCHANGED <<taskRest, exit_flag, files, pipe_closed>>

\* with exit_flag.get_lock(): local_flag = exit_flag.value   (inside the for)
TaskGetFlag(t) ==
    /\ task[t].pc = "getflag"
    /\ task' = [task EXCEPT ![t].local_flag = exit_flag[t], ![t].pc = "sleep"]
    /\ UNCHANGED <<taskRest, exit_flag, files, pipe, pipe_closed, hist>>

TaskSleepWrong(t) ==
    /\ task[t].pc = "sleep"
    /\ task' = [task EXCEPT ![t].file = -1, ![t].i = @ + 1, ![t].pc = "for"]
    /\ UNCHANGED <<taskRest, exit_flag, files, pipe, pipe_closed, hist>>
\* time.sleep(1/freq); the with block ends (the file is closed); next i
TaskSleep(t) ==
    /\ task[t].pc = "sleep"
    /\ task' = [task EXCEPT ![t].file = -1, ![t].open = @ \ {task[t].file},
                             ![t].i = @ + 1, ![t].pc = "for"]
    /\ UNCHANGED <<taskRest, exit_flag, files, pipe, pipe_closed, hist>>

TaskCloseWrong(t) ==
    /\ task[t].pc = "close"
    /\ task' = [task EXCEPT ![t].pc = "done"]
    /\ hist' = [hist EXCEPT ![t].rank = NumDone + 1]
    /\ UNCHANGED <<taskRest, exit_flag, files, pipe, pipe_closed>>
\* pipe.close(), and the process ends
TaskClose(t) ==
    /\ task[t].pc = "close"
    /\ pipe_closed' = [pipe_closed EXCEPT ![t] = @ + 1]
    /\ task' = [task EXCEPT ![t].pc = "done"]
    /\ hist' = [hist EXCEPT ![t].rank = NumDone + 1]
    /\ UNCHANGED <<taskRest, exit_flag, files, pipe>>

TaskExceptWrong(t) ==
    /\ task[t].pc = "except"
    /\ task' = [task EXCEPT ![t].pc = "while"]
    /\ UNCHANGED <<taskRest, exit_flag, files, pipe, pipe_closed, hist>>
\* except SensorInactiveError as e: print(e.message), and the process ends
TaskExcept(t) ==
    /\ task[t].pc = "except"
    /\ task' = [task EXCEPT ![t].pc = "done"]
    /\ hist' = [hist EXCEPT ![t].rank = NumDone + 1]
    /\ UNCHANGED <<taskRest, exit_flag, files, pipe, pipe_closed>>

\* the caller receives a bundle from the pipe it was given
Recv(t) ==
    /\ pipe[t] # <<>>
    /\ pipe' = [pipe EXCEPT ![t] = Tail(@)]
    /\ UNCHANGED <<taskRest, exit_flag, task, files, pipe_closed, hist>>

TaskStep(t) ==
    \/ TaskStart(t)
    \/ TaskWhile(t)
    \/ TaskBody(t)
    \/ TaskFor(t)
    \/ TaskReadAcc(t)
    \/ TaskReadMag(t)
    \/ TaskReadGyr(t)
    \/ TaskWrite(t)
    \/ TaskSend(t)
    \/ TaskGetFlag(t)
    \/ TaskSleep(t)
    \/ TaskClose(t)
    \/ TaskExcept(t)

(* --------------------------------------------------------- specifications *)

\* the sensors and the owner's direct calls, bus writes that may fail
NextSensor ==
    \/ \E ok \in 0..Len(SetupWrites) : SetupDefault(ok)
    \/ \E ok \in 0..Len(ResetWrites) : ResetRegisters(ok)
    \/ \E kind \in Kinds, axis \in AxisArgs : ReadAxisCall(kind, axis)
    \/ \E kind \in Kinds : ReadAllCall(kind)
    \/ BusChange

SpecSensor == Init /\ [][NextSensor]_vars

\* the owner, its acquisition processes and the consumer of their pipes
Next ==
    \/ SetupDefault(Len(SetupWrites))
    \/ ResetRegisters(Len(ResetWrites))
    \/ \E freq \in 1..MaxFreq, cut \in {NoCut} \cup (1..MaxCut) :
           TakeMeasurementsProcess(freq, cut)
    \/ EndCall
    \/ EndSetFlag
    \/ EndJoin
    \/ EndReturn
    \/ \E t \in Tasks : TaskStep(t)
    \/ \E t \in Tasks : Recv(t)

Spec == Init /\ [][Next]_vars

\* one acquisition process, on a device whose output registers change
NextTask ==
    \/ SetupDefault(Len(SetupWrites))
    \/ /\ processes = <<>>
       /\ \E freq \in 1..MaxFreq, cut \in {NoCut} \cup (1..MaxCut) :
              TakeMeasurementsProcess(freq, cut)
    \/ EndCall
    \/ EndSetFlag
    \/ EndJoin
    \/ EndReturn
    \/ \E t \in Tasks : TaskStep(t)
    \/ \E t \in Tasks : Recv(t)
    \/ BusChange

SpecTask == Init /\ [][NextTask]_vars

\* every process, the owner inside end_measurements_processes and the
\* consumer keep running
Fairness ==
    /\ \A t \in Tasks : WF_vars(TaskStep(t))
    /\ \A t \in Tasks : WF_vars(Recv(t))
    /\ WF_vars(EndSetFlag)
    /\ WF_vars(EndJoin)
    /\ WF_vars(EndReturn)

FairSpec == Init /\ [][Next]_vars /\ Fairness

(* ------------------------------------------------------------ properties *)

\* C1: an axis read on an active sensor returns v if v < 32768 and
\* v - 65536 otherwise, where v = low + 256 * high is the 16-bit value of the
\* two bytes the bus returned; the result lies in -32768..32767.
C1_DecodeSigned16 ==
    (ret.op = "readAxis" /\ ret.outcome = "value") =>
        LET v == out_l + 256 * out_h
        IN  /\ ret.value = (IF v < 32768 THEN v ELSE v - 65536)
            /\ ret.value >= -32768
            /\ ret.value <= 32767
            /\ (v = 32767 => ret.value = 32767)
            /\ (v = 32768 => ret.value = -32768)
            /\ (v = 65535 => ret.value = -1)
            /\ (v = 0 => ret.value = 0)

\* a gyroscope axis was read with low = 0, high = 128 and gave -32768
C1_Witness ==
    /\ ret.op = "readAxis"
    /\ ret.kind = "gyr"
    /\ ret.outcome = "value"
    /\ out_l = 0
    /\ out_h = 128
    /\ ret.value = -32768

\* C2: a read*Axis call while the kind's own active flag is false fails with
\* SensorInactiveError whose sensor field names that kind, without a bus read.
C2_InactiveErrorNamesSensor ==
    (ret.op = "readAxis" /\ ~OwnFlag(OwnerFlags, ret.kind)) =>
        /\ ret.outcome = "SensorInactiveError"
        /\ ret.sensor = KindName(ret.kind)
        /\ ret.reads = 0

\* C3 as stated: an axis outside {0,1,2} fails with ValueError whatever the
\* active flag is, without a bus read.
C3_InvalidAxisAlwaysValueError ==
    (ret.op = "readAxis" /\ ret.axis \notin {0, 1, 2}) =>
        /\ ret.outcome = "ValueError"
        /\ ret.reads = 0

\* C3 amended: an axis outside {0,1,2} performs no bus read and fails with
\* ValueError when the flag the method tests is true, and with
\* SensorInactiveError when that flag is false.
C3_InvalidAxisError ==
    (ret.op = "readAxis" /\ ret.axis \notin {0, 1, 2}) =>
        /\ ret.reads = 0
        /\ CheckedFlag(OwnerFlags, ret.kind) => ret.outcome = "ValueError"
        /\ ~CheckedFlag(OwnerFlags, ret.kind) => ret.outcome = "SensorInactiveError"

\* readMagAxis(-1) on an active magnetometer raised ValueError
C3_Witness ==
    /\ ret.op = "readAxis"
    /\ ret.kind = "mag"
    /\ ret.axis = -1
    /\ mag_active
    /\ ret.outcome = "ValueError"

\* C4: as long as every bus write of every setup_default / reset_registers
\* call has succeeded, the three flags are all true if the last call was
\* setup_default and all false if it was reset_registers or there was none.
C4_FlagsFollowLastCall ==
    ~calls.failed =>
        /\ calls.last = "setup_default" =>
               (acc_active /\ gyr_active /\ mag_active)
        /\ calls.last \in {"reset_registers", "none"} =>
               (~acc_active /\ ~gyr_active /\ ~mag_active)

\* setup_default has succeeded right after a successful reset_registers
C4_Witness ==
    /\ ~calls.failed
    /\ calls.prev = "reset_registers"
    /\ calls.last = "setup_default"
    /\ acc_active /\ gyr_active /\ mag_active

\* C5: a process reads a sensor kind's output registers only while the
\* owner's flag of that kind is true, also when the owner calls
\* reset_registers while the process is running.
C5_ReadsOnlyWhileActive ==
    [][\A t \in Tasks :
          /\ (task[t].pc = "readAcc" /\ task'[t].pc = "readMag") => acc_active
          /\ (task[t].pc = "readMag" /\ task'[t].pc = "readGyr") => mag_active
          /\ (task[t].pc = "readGyr" /\ task'[t].pc = "write") => gyr_active]_vars

\* C6: when segment file k > 0 is open, segment file k - 1 holds exactly
\* cut * freq sample lines.
C6_SegmentHoldsCutFreqLines ==
    \A t \in Tasks :
        task[t].file > 0 =>
            Len(files[t][task[t].file - 1]) = task[t].cut * task[t].freq

\* C7: a process never opens (and truncates) a file it has opened before.
C7_SegmentFileNeverReopened ==
    [][\A t \in Tasks :
          (task[t].pc = "for" /\ task'[t].pc = "readAcc") =>
              task'[t].file \notin DOMAIN files[t]]_vars

\* C8: a process completes at most one sample after its cancellation signal
\* has been set.
C8_AtMostOneSampleAfterCancel ==
    \A t \in Tasks : hist[t].after <= 1

\* C9: every process whose cancellation signal has been set terminates, and
\* end_measurements_processes returns.
C9_CancelledTaskTerminates ==
    /\ \A t \in Tasks : (exit_flag[t] = 1) ~> (task[t].pc = "done")
    /\ (owner.pc # "idle") ~> (owner.pc = "idle")

\* C10: a process launched without a rotation period, with all sensors
\* active, writes a sample line to an output file unless it is cancelled.
C10_NoRotationTaskSamples ==
    \A t \in Tasks :
        (/\ task[t].pc = "while"
         /\ task[t].cut = NoCut
         /\ task[t].local_flag = 0
         /\ task[t].active.acc /\ task[t].active.mag /\ task[t].active.gyr)
        ~> (\/ \E k \in DOMAIN files[t] : files[t][k] # <<>>
            \/ exit_flag[t] = 1)

\* C11: during the join loop of end_measurements_processes the indices
\* reported so far are 0, 1, ..., k-1 in launch order, each for a process that
\* has ended; when the loop is over every launched process has been joined
\* and reported exactly once.
C11_JoinsInLaunchOrder ==
    owner.pc = "join" =>
        /\ owner.reported = [j \in 1..(owner.k - 1) |-> j - 1]
        /\ \A j \in 1..(owner.k - 1) : task[processes[j]].pc = "done"
        /\ owner.k > Len(processes) =>
               /\ Len(owner.reported) = Len(processes)
               /\ \A t \in Tasks :
                      task[t].pc # "unborn" =>
                          Cardinality({j \in 1..Len(owner.reported) :
                                          processes[owner.reported[j] + 1] = t}) = 1

\* both processes were joined and reported as 0, 1 although the second one
\* ended before the first
C11_Witness ==
    /\ owner.pc = "join"
    /\ owner.k > Len(processes)
    /\ owner.reported = <<0, 1>>
    /\ hist[2].rank = 1
    /\ hist[1].rank = 2

\* C12: no join begins while a tracked cancellation signal is still 0: when
\* end_measurements_processes is in its join loop every tracked signal is 1.
C12_AllFlagsSetBeforeJoin ==
    owner.pc = "join" =>
        \A j \in 1..Len(flags) : exit_flag[flags[j]] = 1

\* the join loop is about to wait for the first of two processes, both
\* signals are set and neither process has ended
C12_Witness ==
    /\ owner.pc = "join"
    /\ owner.k = 1
    /\ Len(flags) = 2
    /\ exit_flag[flags[1]] = 1
    /\ exit_flag[flags[2]] = 1
    /\ task[processes[1]].pc # "done"
    /\ task[processes[2]].pc # "done"

\* the process has caught SensorInactiveError (it ended without pipe.close())
Failed(t) ==
    \/ task[t].pc = "except"
    \/ task[t].pc = "done" /\ pipe_closed[t] = 0

\* C13: the step in which a read fails with SensorInactiveError writes no
\* line and sends nothing, and the file of that tick is empty; from then on
\* the process only ends: it reads no sensor, writes no line, sends nothing
\* and does not close the pipe.
C13_InactiveErrorEndsTask ==
    [][\A t \in Tasks :
          /\ (task[t].pc # "except" /\ task'[t].pc = "except") =>
                 /\ files'[t] = files[t]
                 /\ pipe'[t] = pipe[t]
                 /\ files[t][task[t].file] = <<>>
          /\ Failed(t) =>
                 /\ task'[t].pc \in {"except", "done"}
                 /\ files'[t] = files[t]
                 /\ Len(pipe'[t]) <= Len(pipe[t])
                 /\ pipe_closed'[t] = pipe_closed[t]]_vars

\* a process has ended through the except clause, having opened one file
C13_Witness ==
    \E t \in Tasks :
        /\ task[t].pc = "done"
        /\ pipe_closed[t] = 0
        /\ DOMAIN files[t] = {0}
        /\ files[t][0] = <<>>

\* C14: a pipe is closed at most once and only by a process that has ended,
\* so nothing is sent on a closed pipe; a process that has ended because it
\* read its cancellation signal as set has closed its pipe exactly once.
C14_PipeClosedOnce ==
    \A t \in Tasks :
        /\ pipe_closed[t] <= 1
        /\ pipe_closed[t] = 1 => task[t].pc = "done"
        /\ (task[t].pc = "done" /\ task[t].local_flag = 1) => pipe_closed[t] = 1

\* a process has sent a sample after its signal was set, then closed its pipe
C14_Witness ==
    \E t \in Tasks :
        /\ task[t].pc = "done"
        /\ task[t].local_flag = 1
        /\ hist[t].after >= 1
        /\ pipe_closed[t] = 1

\* C15: a process has at most one output file open, and none once it has
\* ended or is in the except clause.
C15_AtMostOneFileOpen ==
    \A t \in Tasks :
        /\ Cardinality(task[t].open) <= 1
        /\ task[t].pc \in {"done", "except", "close"} => task[t].open = {}

\* a process that wrote two files has ended with no file open
C15_Witness ==
    \E t \in Tasks :
        /\ task[t].pc = "done"
        /\ task[t].open = {}
        /\ DOMAIN files[t] = {0, 1}
        /\ files[t][1] # <<>>

\* the last line of the file the process has open
LastLine(t) == files[t][task[t].file][Len(files[t][task[t].file])]

\* C16: in every tick a process reads the accelerometer, then the
\* magnetometer, then the gyroscope, then writes the line, then sends the
\* bundle; the bundle sent carries the nine values of the line written last;
\* the number of lines written minus the number of bundles sent is 0 or 1.
C16_LineThenBundle ==
    [][\A t \in Tasks :
          /\ hist'[t].lead \in {0, 1}
          /\ (task'[t].pc # task[t].pc /\ task'[t].pc = "readMag") =>
                 /\ task[t].pc = "readAcc"
                 /\ task'[t].acc = [x |-> Decode(out_l + 256 * out_h),
                                    y |-> Decode(out_l + 256 * out_h),
                                    z |-> Decode(out_l + 256 * out_h)]
                 /\ task'[t].mag = task[t].mag /\ task'[t].gyr = task[t].gyr
          /\ (task'[t].pc # task[t].pc /\ task'[t].pc = "readGyr") =>
                 /\ task[t].pc = "readMag"
                 /\ task'[t].acc = task[t].acc /\ task'[t].gyr = task[t].gyr
          /\ (task'[t].pc # task[t].pc /\ task'[t].pc = "write") =>
                 /\ task[t].pc = "readGyr"
                 /\ task'[t].acc = task[t].acc /\ task'[t].mag = task[t].mag
          /\ (task'[t].pc # task[t].pc /\ task'[t].pc = "send") =>
                 /\ task[t].pc = "write"
                 /\ hist[t].lead = 0
                 /\ Len(files'[t][task[t].file]) = Len(files[t][task[t].file]) + 1
                 /\ pipe'[t] = pipe[t]
          /\ Len(pipe'[t]) > Len(pipe[t]) =>
                 /\ task[t].pc = "send"
                 /\ hist[t].lead = 1
                 /\ files'[t] = files[t]
                 /\ LET b == pipe'[t][Len(pipe'[t])]
                    IN  LastLine(t) = <<b[1].x, b[1].y, b[1].z,
                                        b[3].x, b[3].y, b[3].z,
                                        b[2].x, b[2].y, b[2].z>>]_vars

\* a bundle with three different readings has been sent after its line
C16_Witness ==
    \E t \in Tasks :
        /\ task[t].pc = "getflag"
        /\ hist[t].lead = 0
        /\ pipe[t] # <<>>
        /\ pipe[t][1][1] # pipe[t][1][2]
        /\ pipe[t][1][2] # pipe[t][1][3]
        /\ pipe[t][1][1] # pipe[t][1][3]
        /\ LastLine(t)[1] = pipe[t][1][1].x
        /\ LastLine(t)[4] = pipe[t][1][3].x
        /\ LastLine(t)[7] = pipe[t][1][2].x

\* the owner's last call was a reset_registers all of whose writes succeeded
ResetDone(r) == r.op = "reset_registers" /\ r.outcome = "ok"

\* C17: after a successful reset_registers, whatever the state before, every
\* control register that setup_default writes holds zero and the three
\* flags are false; a second successful call changes nothing.
C17_ResetIdempotent ==
    [][ResetDone(ret') =>
          /\ \A k \in 1..Len(SetupWrites) :
                 regs'[<<SetupWrites[k][1], SetupWrites[k][2]>>] = 0
          /\ ~acc_active' /\ ~gyr_active' /\ ~mag_active'
          /\ ResetDone(ret) => sensorVars' = sensorVars]_vars

\* reset_registers has succeeded twice in a row, after a setup_default
\* that failed half way
C17_Witness ==
    /\ ResetDone(ret)
    /\ calls.last = "reset_registers"
    /\ calls.prev = "reset_registers"
    /\ calls.failed
    /\ \A r \in CtrlRegs : regs[r] = 0

\* C18: the process list and the flag list have the same length, their i-th
\* entries are the process and the signal of the i-th launch; a step either
\* leaves both lists alone or is a launch that appends one pair to them.
C18_ProcessFlagPairs ==
    [][/\ Len(processes') = Len(flags')
       /\ Len(processes') = Cardinality({t \in Tasks : task'[t].pc # "unborn"})
       /\ \A j \in 1..Len(processes') : processes'[j] = j /\ flags'[j] = j
       /\ \/ processes' = processes /\ flags' = flags
          \/ /\ owner.pc = "idle" /\ owner' = owner
             /\ Len(processes') = Len(processes) + 1
             /\ SubSeq(processes', 1, Len(processes)) = processes
             /\ SubSeq(flags', 1, Len(flags)) = flags
             /\ task[processes'[Len(processes')]].pc = "unborn"
             /\ task'[processes'[Len(processes')]].pc = "start"
             /\ exit_flag'[flags'[Len(flags')]] = 0]_vars

\* two launches, then end_measurements_processes has returned: both pairs
\* are still tracked
C18_Witness ==
    /\ owner.pc = "idle"
    /\ owner.reported = <<0, 1>>
    /\ processes = <<1, 2>>
    /\ flags = <<1, 2>>

\* C19: the three flags are equal in every state, and a setup_default or
\* reset_registers call that fails with a bus error leaves them unchanged.
C19_FlagsEqualAndKeptOnError ==
    [][/\ acc_active = gyr_active /\ gyr_active = mag_active
       /\ acc_active' = gyr_active' /\ gyr_active' = mag_active'
       /\ ret'.outcome = "IOError" =>
              /\ acc_active' = acc_active
              /\ gyr_active' = gyr_active
              /\ mag_active' = mag_active]_vars

\* setup_default failed after its accelerometer and magnetometer writes and
\* the flags are still all false
C19_Witness ==
    /\ ret.op = "setup_default"
    /\ ret.outcome = "IOError"
    /\ regs[<<"MAG_ADDRESS", "CTRL_REG6_XM">>] = 96
    /\ regs[<<"GYR_ADDRESS", "CTRL_REG1_G">>] = 0
    /\ ~acc_active /\ ~gyr_active /\ ~mag_active

====
